---- MODULE Spec2Model ----
(***************************************************************************)
(* Model of the notification demultiplexer and file-receive protocol of    *)
(* acc_datalogger.py: FileReceiver, BLEWorker.connect / disconnect /       *)
(* send_command, and MainWindow._handle_notification / on_rx_timeout.      *)
(*                                                                         *)
(* A byte string (bytearray or str) is a sequence of tokens <<k, v, n>>:   *)
(* k is the kind of the token, v its text and n its length in bytes.  A    *)
(* token of kind "b" is a run of n equal bytes of value v; adjacent runs   *)
(* of the same value are kept merged, so that two token sequences are      *)
(* equal exactly when the byte strings are.                                *)
(***************************************************************************)
EXTENDS Integers, Sequences, FiniteSets, TLC

\* ---------------------------------------------------------------------
\* Bounds of the model
\* ---------------------------------------------------------------------
MaxSteps == 5

\* ---------------------------------------------------------------------
\* Program constants
\* ---------------------------------------------------------------------
FILE_PACKET_SIZE == 1024

DefaultMaxLines == 50

\* ---------------------------------------------------------------------
\* Byte strings
\* ---------------------------------------------------------------------
B(v, n) == <<"b", v, n>>

NL == <<"nl", "\n", 1>>

MARK == <<"mark", "Sending file:", 13>>

COMMA == <<"comma", ",", 1>>

NAME(v, n) == <<"name", v, n>>

NUM(v, n) == <<"num", v, n>>

SP == <<"sp", " ", 1>>

CR == <<"cr", "\r", 1>>

\* a character of two bytes in UTF-8, and its two bytes when they are apart
U8 == <<"u8", "\\u00e9", 2>>

LEAD == <<"lead", "\\xc3", 1>>

CONT == <<"cont", "\\xa9", 1>>

\* a piece of formatted console text (its length is never used)
Msg(v) == <<"msg", v, 0>>

RECURSIVE ByteLen(_)
ByteLen(s) ==
    IF s = <<>> THEN 0
    ELSE IF Len(s) = 1 THEN s[1][3]
    ELSE LET h == Len(s) \div 2
         IN ByteLen(SubSeq(s, 1, h)) + ByteLen(SubSeq(s, h + 1, Len(s)))

\* bytearray.extend / str +=
Concat(a, b) ==
    IF a = <<>> THEN b
    ELSE IF b = <<>> THEN a
    ELSE LET x == a[Len(a)]
             y == b[1]
         IN IF x[1] = "b" /\ y[1] = "b" /\ x[2] = y[2]
            THEN SubSeq(a, 1, Len(a) - 1) \o <<B(x[2], x[3] + y[3])>> \o Tail(b)
            ELSE a \o b

\* the first n bytes of s
RECURSIVE Take(_, _)
Take(s, n) ==
    IF n <= 0 \/ s = <<>> THEN <<>>
    ELSE LET x == Head(s)
         IN IF x[3] <= n THEN <<x>> \o Take(Tail(s), n - x[3])
            ELSE IF x[1] = "b" THEN <<B(x[2], n)>>
            ELSE <<<<"part", x[2], n>>>>

RECURSIVE Flatten(_)
Flatten(ss) == IF ss = <<>> THEN <<>> ELSE Concat(Head(ss), Flatten(Tail(ss)))

\* the first n bytes of s and the bytes after them, 0 < n < ByteLen(s)
RECURSIVE Cut(_, _)
Cut(s, n) ==
    LET x == Head(s)
    IN IF x[3] = n THEN << <<x>>, Tail(s) >>
       ELSE IF x[3] < n
       THEN LET r == Cut(Tail(s), n - x[3]) IN << <<x>> \o r[1], r[2] >>
       ELSE IF x[1] = "b" THEN << <<B(x[2], n)>>, <<B(x[2], x[3] - n)>> \o Tail(s) >>
       ELSE IF x[1] = "u8" THEN << <<LEAD>>, <<CONT>> \o Tail(s) >>
       ELSE << <<<<"part", x[2], n>>>>, <<<<"part", x[2], x[3] - n>>>> \o Tail(s) >>

\* bytes.decode(errors="replace"): an invalid byte, or a byte of a character
\* whose other bytes are not in the same buffer, becomes U+FFFD
DecodeTok(x) ==
    IF x[1] = "b" /\ x[2] = "\\xff" THEN B("\\ufffd", x[3])
    ELSE IF x[1] \in {"lead", "cont"} THEN B("\\ufffd", 1)
    ELSE x

RECURSIVE decode(_)
decode(s) ==
    IF s = <<>> THEN <<>>
    ELSE IF Len(s) = 1 THEN <<DecodeTok(s[1])>>
    ELSE LET h == Len(s) \div 2
         IN Concat(decode(SubSeq(s, 1, h)), decode(SubSeq(s, h + 1, Len(s))))

\* "\n" in s
HasNL(s) == \E i \in 1..Len(s) : s[i][1] = "nl"

\* s.endswith("\n")
EndsNL(s) == s # <<>> /\ s[Len(s)][1] = "nl"

\* "Sending file:" in s
HasMark(s) == \E i \in 1..Len(s) : s[i][1] = "mark"

\* str.splitlines(keepends=True): a line ends at "\n", at "\r\n" and at a
\* "\r" that no "\n" follows
LineEnd(s, i) ==
    s[i][1] = "nl" \/ (s[i][1] = "cr" /\ ~(i < Len(s) /\ s[i + 1][1] = "nl"))

\* the lines of s[a..b]
RECURSIVE SplitRange(_, _, _)
SplitRange(s, a, b) ==
    IF a > b THEN <<>>
    ELSE IF a = b THEN << <<s[a]>> >>
    ELSE LET h == (a + b) \div 2
             l == SplitRange(s, a, h)
             r == SplitRange(s, h + 1, b)
         IN IF LineEnd(s, h) THEN l \o r
            ELSE SubSeq(l, 1, Len(l) - 1) \o <<l[Len(l)] \o r[1]>> \o Tail(r)

splitlines(s) == SplitRange(s, 1, Len(s))

\* str.strip on a line of this alphabet: blanks and newlines at both ends
IsBlank(x) == x[1] \in {"sp", "nl", "cr"}

RECURSIVE lstrip(_)
lstrip(s) == IF s # <<>> /\ IsBlank(Head(s)) THEN lstrip(Tail(s)) ELSE s

RECURSIVE rstrip(_)
rstrip(s) ==
    IF s # <<>> /\ IsBlank(s[Len(s)]) THEN rstrip(SubSeq(s, 1, Len(s) - 1)) ELSE s

strip(s) == rstrip(lstrip(s))

\* index of the first token of kind k in s, 0 when there is none
FirstOf(s, k) ==
    IF \E i \in 1..Len(s) : s[i][1] = k
    THEN CHOOSE i \in 1..Len(s) : s[i][1] = k /\ \A j \in 1..(i - 1) : s[j][1] # k
    ELSE 0

\* int(text): the decimal texts of this alphabet and their values
IntTable ==
    { <<"0", 0>>, <<"100", 100>>, <<"1500", 1500>>, <<"2000", 2000>>,
      <<"2048", 2048>>, <<"-5", 0 - 5>> }

IntOk(s) == Len(s) = 1 /\ s[1][1] = "num" /\ \E p \in IntTable : p[1] = s[1][2]

int(s) == (CHOOSE p \in IntTable : p[1] = s[1][2])[2]

\* Path(filename).name
BaseName(x) == IF x[1] = "name" /\ x[2] = "../x.bin" THEN NAME("x.bin", 5) ELSE x

PathName(s) == [i \in 1..Len(s) |-> BaseName(s[i])]

\* ---------------------------------------------------------------------
\* Inputs: the chunks the transport may deliver
\* ---------------------------------------------------------------------
DirLine(name, num) == <<MARK, SP, name, COMMA, num, NL>>

CalibBin == NAME("calib.bin", 9)

Chunks ==
    { DirLine(CalibBin, NUM("100", 3)),
      DirLine(CalibBin, NUM("1500", 4)),
      DirLine(CalibBin, NUM("100", 3)) \o <<B("x", 3)>>,
      <<MARK, SP, NAME("badsize", 7), NL>>,
      <<B("t", 5), NL>>,
      <<B("x", 60)>>,
      <<B("x", 476)>>,
      <<B("x", 548)>>,
      <<B("x", 1024)>>,
      <<B("x", 1500)>> }

\* ---------------------------------------------------------------------
\* State
\* ---------------------------------------------------------------------
VARIABLES
    receiving,        \* FileReceiver.receiving
    file,             \* FileReceiver.file: name of the open file, <<>> for None
    rx_bytes,         \* FileReceiver.rx_bytes
    file_size,        \* FileReceiver.file_size
    packet_bytes_num, \* MainWindow.packet_bytes_num
    packet_bytes,     \* MainWindow.packet_bytes
    rx_watchdog,      \* MainWindow.rx_watchdog: "inactive", or active and
                      \* "armed" (no timeout since start()) or "fired"
    last_line,        \* MainWindow.last_line
    console_deque,    \* MainWindow.console_deque
    maxlen,           \* MainWindow.console_deque.maxlen
    client,           \* BLEWorker.client: "None", "up" (is_connected) or "down"
    notify,           \* start_notify succeeded on the current client
    tx_char_uuid,     \* BLEWorker.tx_char_uuid is set and not None
    tasks,            \* send_command tasks created and not yet run
    issued,           \* every command handed to asyncio.create_task, in order
    sent,             \* every buffer written to the RX characteristic
    store,            \* every file.write call: <<file name, data, ok>>
    session,          \* history of the session opened last
    crashed,          \* the process was aborted by an unhandled exception
    chunk,            \* the data of the last _handle_notification call
    trace             \* the handlers run so far, in order

vars ==
    << receiving, file, rx_bytes, file_size, packet_bytes_num, packet_bytes,
       rx_watchdog, last_line, console_deque, maxlen, client, notify,
       tx_char_uuid, tasks, issued, sent, store, session, crashed, chunk, trace >>

receiverVars == << receiving, file, rx_bytes, file_size >>

packetVars == << packet_bytes_num, packet_bytes >>

bleVars == << client, notify, tx_char_uuid >>

NoSession == [raw |-> <<>>, first |-> 0, overrun |-> FALSE, timeout |-> FALSE, failed |-> FALSE]

Init ==
    /\ receiving = FALSE
    /\ file = <<>>
    /\ rx_bytes = 0
    /\ file_size = 0
    /\ packet_bytes_num = 0
    /\ packet_bytes = <<>>
    /\ rx_watchdog = "inactive"
    /\ last_line = <<>>
    /\ console_deque = <<>>
    /\ maxlen = DefaultMaxLines
    /\ client = "None"
    /\ notify = FALSE
    /\ tx_char_uuid = FALSE
    /\ tasks = <<>>
    /\ issued = <<>>
    /\ sent = <<>>
    /\ store = <<>>
    /\ session = NoSession
    /\ crashed = FALSE
    /\ chunk = <<>>
    /\ trace = <<>>

\* deque(maxlen=...).append
DequeAppend(dq, x) ==
    IF Len(dq) >= maxlen THEN Append(Tail(dq), x) ELSE Append(dq, x)

\* MainWindow._append_console, the slot of BLEWorker.log
AppendConsole(dq, rcv, text) == IF ~rcv THEN DequeAppend(dq, <<Msg(text)>>) ELSE dq

RECURSIVE AppendAll(_, _, _)
AppendAll(dq, rcv, texts) ==
    IF texts = <<>> THEN dq
    ELSE AppendAll(AppendConsole(dq, rcv, Head(texts)), rcv, Tail(texts))

Running == ~crashed /\ Len(trace) < MaxSteps

Ran(h) == trace' = Append(trace, h)

\* the handler that ran last, and the one before it
Last(t) == IF t = <<>> THEN "init" ELSE t[Len(t)]

Prev(t) == IF Len(t) < 2 THEN "init" ELSE t[Len(t) - 1]

\* ---------------------------------------------------------------------
\* FileReceiver
\* ---------------------------------------------------------------------
\* FileReceiver.start_receiving; open() raises when no file name is left
start_receiving(r, filename, size) ==
    LET safe_name == PathName(filename)
    IN IF safe_name = <<>>
       THEN [r EXCEPT !.exc = "OSError"]
       ELSE [r EXCEPT !.file = safe_name, !.rx_bytes = 0, !.file_size = size,
                      !.receiving = TRUE]

\* FileReceiver.stop_receiving
stop_receiving(r) == [r EXCEPT !.file = <<>>, !.receiving = FALSE]

\* handle_data with the completion test written as > instead of >=
handle_data_strict(r, data, ok) ==
    IF r.receiving /\ r.file # <<>>
    THEN IF ~ok
         THEN [r EXCEPT !.writes = Append(@, <<r.file, data, FALSE>>), !.exc = "OSError"]
         ELSE LET w == [r EXCEPT !.writes = Append(@, <<r.file, data, TRUE>>),
                                 !.rx_bytes = @ + ByteLen(data)]
              IN IF w.rx_bytes > w.file_size THEN stop_receiving(w) ELSE w
    ELSE r

\* FileReceiver.handle_data; ok is the outcome of file.write
handle_data(r, data, ok) ==
    IF r.receiving /\ r.file # <<>>
    THEN IF ~ok
         THEN [r EXCEPT !.writes = Append(@, <<r.file, data, FALSE>>), !.exc = "OSError"]
         ELSE LET w == [r EXCEPT !.writes = Append(@, <<r.file, data, TRUE>>),
                                 !.rx_bytes = @ + ByteLen(data)]
              IN IF w.rx_bytes >= w.file_size THEN stop_receiving(w) ELSE w
    ELSE r

\* the record the operators above work on
Receiver ==
    [ receiving |-> receiving, file |-> file, rx_bytes |-> rx_bytes,
      file_size |-> file_size, writes |-> <<>>, exc |-> "none" ]

\* ---------------------------------------------------------------------
\* MainWindow._handle_notification, file receive mode
\* ---------------------------------------------------------------------
\* the flush condition with the packet size tested by >= instead of ==
PacketCompleteLoose(num, rx, size) == num >= FILE_PACKET_SIZE \/ rx + num >= size

\* the condition under which the packet buffer is flushed
PacketComplete(num, rx, size) == num = FILE_PACKET_SIZE \/ rx + num >= size

\* the overrun test with the limit doubled
OverrunLate(num) == num > 2 * FILE_PACKET_SIZE

\* the test of the elif branch that logs the overrun
Overrun(num) == num > FILE_PACKET_SIZE

AckCmd == "FIL:ACK\n"

\* the timeout command mistyped as the acknowledgement
NackCmdAsAck == "FIL:ACK\n"

NackCmd == "FIL:NACK\n"

OverrunText == "Error: received more than 1024 bytes without ACK\n"

CompleteText == "File receive complete\n"

ErrorText == "File receive error\n"

TimeoutText == "File receive timeout: no data received for 1 second\n"

HandleFileData(data, ok) ==
    LET pb == Concat(packet_bytes, data)
        pn == packet_bytes_num + ByteLen(data)
        flush == PacketComplete(pn, rx_bytes, file_size)
        r == IF flush THEN handle_data(Receiver, pb, ok) ELSE Receiver
        raised == r.exc # "none"
        logged == IF ~flush /\ Overrun(pn)
                  THEN DequeAppend(console_deque, <<Msg(OverrunText)>>)
                  ELSE console_deque
    IN /\ tasks' = IF flush THEN Append(tasks, AckCmd) ELSE tasks
       /\ issued' = IF flush THEN Append(issued, AckCmd) ELSE issued
       /\ store' = store \o r.writes
       /\ receiving' = r.receiving
       /\ file' = r.file
       /\ rx_bytes' = r.rx_bytes
       /\ file_size' = r.file_size
       /\ packet_bytes_num' = IF flush /\ ~raised THEN 0 ELSE pn
       /\ packet_bytes' = IF flush /\ ~raised THEN <<>> ELSE pb
       /\ rx_watchdog' = IF raised THEN rx_watchdog ELSE "armed"
       /\ console_deque' =
             IF raised THEN DequeAppend(console_deque, <<Msg(ErrorText)>>)
             ELSE IF ~r.receiving THEN DequeAppend(logged, <<Msg(CompleteText)>>)
             ELSE logged
       /\ session' = [session EXCEPT !.raw = Concat(@, data),
                                     !.overrun = @ \/ Overrun(pn),
                                     !.failed = @ \/ raised]
       /\ UNCHANGED << last_line, crashed >>

\* ---------------------------------------------------------------------
\* MainWindow._handle_notification, console mode
\* ---------------------------------------------------------------------
StartedNotice(filename, size) ==
    <<Msg("Started receiving ")>> \o filename
        \o <<Msg(" ("), Msg(ToString(size)), Msg(" bytes)\n")>>

\* the body of the loop over the lines; rest are the lines after this one
LineStep(line, rest, st) ==
    LET payload == SubSeq(line, FirstOf(line, "mark") + 1, Len(line))
        c == FirstOf(payload, "comma")
        filename == strip(SubSeq(payload, 1, c - 1))
        filesize_part == strip(SubSeq(payload, c + 1, Len(payload)))
        opened == start_receiving(st.rcv, filename, int(filesize_part))
        st1 == IF HasMark(line) /\ HasNL(line)
               THEN IF c = 0 \/ ~IntOk(filesize_part)
                    THEN [st EXCEPT !.rcv.exc = "ValueError"]
                    ELSE IF opened.exc # "none"
                    THEN [st EXCEPT !.rcv = opened]
                    ELSE [st EXCEPT
                            !.rcv = opened,
                            !.console = DequeAppend(@, StartedNotice(filename, int(filesize_part))),
                            !.session = [raw |-> Flatten(rest), first |-> Len(store),
                                         overrun |-> FALSE, timeout |-> FALSE,
                                         failed |-> FALSE]]
               ELSE st
    IN IF st1.rcv.exc # "none" THEN st1
       ELSE IF EndsNL(line) THEN [st1 EXCEPT !.console = DequeAppend(@, line)]
       ELSE [st1 EXCEPT !.last_line = line]

RECURSIVE ProcessLines(_, _)
ProcessLines(lines, st) ==
    IF lines = <<>> \/ st.rcv.exc # "none" THEN st
    ELSE ProcessLines(Tail(lines), LineStep(Head(lines), Tail(lines), st))

\* the console-mode path run on the record st, from decode to the clearing
\* of last_line
Reassemble(st, data) ==
    LET st0 == [st EXCEPT !.last_line = Concat(@, decode(data))]
        st1 == IF HasNL(st0.last_line)
               THEN ProcessLines(splitlines(st0.last_line), st0)
               ELSE st0
    IN IF st1.rcv.exc = "none" /\ HasNL(st0.last_line) /\ EndsNL(st1.last_line)
       THEN [st1 EXCEPT !.last_line = <<>>]
       ELSE st1

\* the record of the state the console-mode path works on
ConsoleState ==
    [ rcv |-> Receiver, console |-> console_deque, last_line |-> last_line,
      session |-> session ]

ConsoleMode(data) == Reassemble(ConsoleState, data)

\* console mode that hands the text left after a directive to the packet buffer
HandleTextRouting(data, abort) ==
    LET st == ConsoleMode(data)
        opened == st.rcv.receiving
    IN /\ receiving' = st.rcv.receiving
       /\ file' = st.rcv.file
       /\ rx_bytes' = st.rcv.rx_bytes
       /\ file_size' = st.rcv.file_size
       /\ console_deque' = st.console
       /\ last_line' = IF opened THEN <<>> ELSE st.last_line
       /\ packet_bytes' = IF opened THEN st.last_line ELSE packet_bytes
       /\ packet_bytes_num' = IF opened THEN ByteLen(st.last_line) ELSE packet_bytes_num
       /\ session' = st.session
       /\ crashed' = (st.rcv.exc # "none" /\ abort)
       /\ UNCHANGED << rx_watchdog, tasks, issued, store >>

\* abort: the unhandled exception of the slot ends the process
HandleText(data, abort) ==
    LET st == ConsoleMode(data)
    IN /\ receiving' = st.rcv.receiving
       /\ file' = st.rcv.file
       /\ rx_bytes' = st.rcv.rx_bytes
       /\ file_size' = st.rcv.file_size
       /\ console_deque' = st.console
       /\ last_line' = st.last_line
       /\ session' = st.session
       /\ crashed' = (st.rcv.exc # "none" /\ abort)
       /\ UNCHANGED << packetVars, rx_watchdog, tasks, issued, store >>

\* MainWindow._handle_notification for a chunk of the set S
Notification(S) ==
    /\ Running
    /\ client = "up" /\ notify
    /\ \E data \in S, flag \in BOOLEAN :
          /\ IF receiving THEN HandleFileData(data, flag) ELSE HandleText(data, flag)
          /\ chunk' = data
    /\ Ran("notification")
    /\ UNCHANGED << bleVars, sent, maxlen >>

handle_notification == Notification(Chunks)

\* ---------------------------------------------------------------------
\* MainWindow.on_rx_timeout, the slot of the repeating 200 ms QTimer
\* ---------------------------------------------------------------------
\* on_rx_timeout without its test of file_receiver.receiving
RxTimeoutUnguarded ==
    /\ packet_bytes_num' = 0
    /\ packet_bytes' = <<>>
    /\ tasks' = Append(tasks, NackCmd)
    /\ issued' = Append(issued, NackCmd)
    /\ console_deque' = DequeAppend(console_deque, <<Msg(TimeoutText)>>)
    /\ session' = [session EXCEPT !.timeout = TRUE]

\* on_rx_timeout without the reset of the packet buffer
RxTimeoutKeepsBuffer ==
    IF receiving
    THEN /\ UNCHANGED packetVars
         /\ tasks' = Append(tasks, NackCmd)
         /\ issued' = Append(issued, NackCmd)
         /\ console_deque' = DequeAppend(console_deque, <<Msg(TimeoutText)>>)
         /\ session' = [session EXCEPT !.timeout = TRUE]
    ELSE UNCHANGED << packetVars, tasks, issued, console_deque, session >>

RxTimeout ==
    IF receiving
    THEN /\ packet_bytes_num' = 0
         /\ packet_bytes' = <<>>
         /\ tasks' = Append(tasks, NackCmd)
         /\ issued' = Append(issued, NackCmd)
         /\ console_deque' = DequeAppend(console_deque, <<Msg(TimeoutText)>>)
         /\ session' = [session EXCEPT !.timeout = TRUE]
    ELSE UNCHANGED << packetVars, tasks, issued, console_deque, session >>

\* QTimer.timeout of a timer that is not single-shot: it stays active
TimerAfterTimeout(t) == "fired"

on_rx_timeout ==
    /\ Running
    /\ rx_watchdog # "inactive"
    /\ RxTimeout
    /\ rx_watchdog' = TimerAfterTimeout(rx_watchdog)
    /\ Ran("timeout")
    /\ UNCHANGED << receiverVars, last_line, bleVars, sent, store, crashed, chunk, maxlen >>

\* ---------------------------------------------------------------------
\* BLEWorker
\* ---------------------------------------------------------------------
\* the texts BLEWorker.disconnect logs; ok is the outcome of client.disconnect()
DisconnectLog(c, ok) ==
    IF c = "None" THEN <<>>
    ELSE <<"Disconnecting ...\n", IF ok THEN "Disconnected\n" ELSE "Error disconnecting\n">>

\* a disconnect that only drops the link and forgets the client the next time
DisconnectClientTwoStage(c) == IF c = "up" THEN "down" ELSE "None"

\* BLEWorker.disconnect: the client it leaves
DisconnectClient(c) == "None"

\* BLEWorker.disconnect
Disconnect(ok) ==
    /\ console_deque' = AppendAll(console_deque, receiving, DisconnectLog(client, ok))
    /\ client' = DisconnectClient(client)
    /\ notify' = IF client = "None" THEN notify ELSE FALSE
    /\ UNCHANGED tx_char_uuid

\* MainWindow.on_disconnect_clicked
on_disconnect_clicked ==
    /\ Running
    /\ \E ok \in BOOLEAN : Disconnect(ok)
    /\ Ran("disconnect")
    /\ UNCHANGED << receiverVars, packetVars, rx_watchdog, last_line, tasks, issued,
                    sent, store, session, crashed, chunk, maxlen >>

\* BLEWorker.connect, called by MainWindow.on_connect_clicked; up is the outcome
\* of client.connect() and tx whether a TX characteristic was entered
on_connect_clicked ==
    /\ Running
    /\ \E up \in BOOLEAN, tx \in BOOLEAN :
          LET first == IF client = "up" THEN DisconnectLog(client, TRUE) ELSE <<>>
              texts == first \o <<"Connecting ...\n">>
                        \o (IF ~up THEN <<"Connect failed\n">>
                            ELSE <<"Connected\n">>
                                 \o (IF tx THEN <<"Started notify\n">> ELSE <<>>))
          IN /\ console_deque' = AppendAll(console_deque, receiving, texts)
             /\ client' = IF up THEN "up" ELSE "down"
             /\ notify' = (up /\ tx)
             /\ tx_char_uuid' = IF up THEN tx ELSE tx_char_uuid
    /\ Ran("connect")
    /\ UNCHANGED << receiverVars, packetVars, rx_watchdog, last_line, tasks, issued,
                    sent, store, session, crashed, chunk, maxlen >>

\* BLEWorker.send_command, run as the oldest pending task; ok is the outcome
\* of write_gatt_char
send_command ==
    /\ Running
    /\ tasks # <<>>
    /\ \E ok \in BOOLEAN :
          LET text == Head(tasks)
          IN IF client # "up"
             THEN /\ console_deque' = AppendConsole(console_deque, receiving, "Not connected: cannot send\n")
                  /\ sent' = sent
             ELSE IF ~tx_char_uuid
             THEN /\ console_deque' = AppendConsole(console_deque, receiving, "No TX characteristic configured\n")
                  /\ sent' = sent
             ELSE IF ok
             THEN /\ console_deque' = AppendConsole(console_deque, receiving, "> " \o text \o "\n")
                  /\ sent' = Append(sent, text)
             ELSE /\ console_deque' = AppendConsole(console_deque, receiving, "Send failed\n")
                  /\ sent' = sent
    /\ tasks' = Tail(tasks)
    /\ Ran("send")
    /\ UNCHANGED << receiverVars, packetVars, rx_watchdog, last_line, bleVars, issued,
                    store, session, crashed, chunk, maxlen >>

\* ---------------------------------------------------------------------
\* MainWindow: the controls of the console
\* ---------------------------------------------------------------------
\* the values the spin box of range 50..100000 is set to
MaxLinesValues == {50, 51, 60}

\* deque(old, maxlen=val) that keeps the oldest entries
DequeOfOldest(old, val) ==
    IF Len(old) > val THEN SubSeq(old, 1, val) ELSE old

\* deque(old, maxlen=val): the last val entries of old
DequeOf(old, val) ==
    IF Len(old) > val THEN SubSeq(old, Len(old) - val + 1, Len(old)) ELSE old

\* MainWindow.on_max_lines_changed, the slot of spin_max_lines.valueChanged
on_max_lines_changed ==
    /\ Running
    /\ \E val \in MaxLinesValues :
          /\ val # maxlen
          /\ console_deque' = DequeOf(console_deque, val)
          /\ maxlen' = val
    /\ Ran("max_lines")
    /\ UNCHANGED << receiverVars, packetVars, rx_watchdog, last_line, bleVars, tasks,
                    issued, sent, store, session, crashed, chunk >>

\* MainWindow.on_clear_console
on_clear_console ==
    /\ Running
    /\ console_deque' = <<>>
    /\ Ran("clear")
    /\ UNCHANGED << receiverVars, packetVars, rx_watchdog, last_line, maxlen, bleVars,
                    tasks, issued, sent, store, session, crashed, chunk >>

\* ---------------------------------------------------------------------
\* Specification
\* ---------------------------------------------------------------------
Next ==
    \/ on_connect_clicked
    \/ on_disconnect_clicked
    \/ handle_notification
    \/ on_rx_timeout
    \/ send_command

Spec == Init /\ [][Next]_vars

\* The same program fed with the chunks of console traffic: directives, well
\* formed and not, alone and followed by more text in the same chunk.
TextChunks ==
    { DirLine(CalibBin, NUM("100", 3)),
      DirLine(CalibBin, NUM("-5", 2)),
      <<MARK, SP, NAME("badsize", 7), NL>>,
      DirLine(CalibBin, NUM("abc", 3)),
      <<B("t", 5), NL>>,
      DirLine(CalibBin, NUM("100", 3)) \o <<B("t", 5), NL>>,
      DirLine(CalibBin, NUM("100", 3)) \o DirLine(NAME("other.bin", 9), NUM("1500", 4)) }

handle_text_notification == Notification(TextChunks)

NextText ==
    \/ on_connect_clicked
    \/ on_disconnect_clicked
    \/ handle_text_notification
    \/ on_rx_timeout
    \/ send_command

SpecText == Init /\ [][NextText]_vars

\* the lines "a\n" .. "b\n" of the decimal numbers a .. b, in one byte string
RECURSIVE NumberedLines(_, _)
NumberedLines(a, b) ==
    IF a > b THEN <<>>
    ELSE <<NUM(ToString(a), IF a < 10 THEN 1 ELSE 2), NL>> \o NumberedLines(a + 1, b)

\* The same program with the controls of the console, fed with text: lines
\* ended by "\n" and by "\r", a character of two bytes, an unterminated
\* piece, a directive for an empty file and a chunk of 24 short lines.
ConsoleChunks ==
    { <<B("a", 1), CR, B("b", 1), NL, B("c", 1)>>,
      <<U8, NL>>,
      <<B("t", 5), NL>>,
      <<B("t", 3)>>,
      DirLine(CalibBin, NUM("0", 1)),
      NumberedLines(1, 24) }

handle_console_notification == Notification(ConsoleChunks)

NextConsole ==
    \/ on_connect_clicked
    \/ on_disconnect_clicked
    \/ handle_console_notification
    \/ on_rx_timeout
    \/ send_command
    \/ on_max_lines_changed
    \/ on_clear_console

SpecConsole == Init /\ [][NextConsole]_vars

\* ---------------------------------------------------------------------
\* Properties
\* ---------------------------------------------------------------------
RECURSIVE Count(_, _)
Count(q, x) ==
    IF q = <<>> THEN 0 ELSE (IF Head(q) = x THEN 1 ELSE 0) + Count(Tail(q), x)

\* the data of the file.write calls i+1 .. Len(st) of st
RECURSIVE WritesFrom(_, _)
WritesFrom(st, i) ==
    IF i >= Len(st) THEN <<>> ELSE <<st[i + 1][2]>> \o WritesFrom(st, i + 1)

\* this step runs the handler h
Step(h) == trace' # trace /\ Last(trace') = h

\* this step passes a packet to file.write
FlushStep == Len(store') = Len(store) + 1

Flushed == store'[Len(store')]

\* this step closes the session that was open
Completes == receiving /\ ~receiving'

\* C1: the number of FIL:ACK commands issued equals the number of packets
\* passed to file.write (a write that raises included): each flush issues
\* one FIL:ACK and no other step issues one.
C1_AckPerFlush == Count(issued, "FIL:ACK\n") = Len(store)

\* two packets were flushed and a timeout was handled in between
C1_Witness == Len(store) = 2 /\ Count(issued, "FIL:NACK\n") = 1

\* C2: a flush that does not bring rx_bytes to file_size writes exactly
\* FILE_PACKET_SIZE bytes.
C2_FullPackets ==
    [][(FlushStep /\ rx_bytes + ByteLen(Flushed[2]) < file_size)
          => ByteLen(Flushed[2]) = 1024]_vars

\* a full packet that arrived in two chunks was flushed, the session is open
C2_Witness ==
    /\ receiving /\ rx_bytes = 1024 /\ Len(store) = 1
    /\ ByteLen(store[1][2]) = 1024
    /\ trace = <<"connect", "notification", "notification", "notification">>

\* the length of the last packet of a transfer of d bytes
LastPacketLen(d) ==
    IF d > 0 /\ d % 1024 = 0 THEN 1024 ELSE d % 1024

\* C3: when a transfer whose payload is exactly file_size bytes completes,
\* the packet flushed last has length file_size mod FILE_PACKET_SIZE (or
\* FILE_PACKET_SIZE), whatever the chunks were.
C3_LastPacket ==
    [][(Completes /\ FlushStep /\ Flushed[3] /\ ByteLen(session'.raw) = file_size
           /\ ~session'.timeout /\ ~session'.failed)
          => ByteLen(Flushed[2]) = LastPacketLen(file_size)]_vars

\* C4: when a session without overrun, timeout or failed write completes, the
\* bytes written since it was opened are the first file_size bytes received
\* after the control line.
C4_NoDataLoss ==
    [][(Completes /\ ~session'.overrun /\ ~session'.timeout /\ ~session'.failed)
          => Flatten(WritesFrom(store', session'.first)) = Take(session'.raw, file_size)]_vars

\* C5: a successful flush that brings rx_bytes to file_size or more ends the
\* session and appends the completion notice; one that leaves rx_bytes
\* below file_size keeps the session and appends nothing.
C5_Completion ==
    [][(receiving /\ FlushStep /\ Flushed[3])
          => IF rx_bytes' >= file_size
             THEN /\ ~receiving'
                  /\ console_deque' = DequeAppend(console_deque, <<Msg("File receive complete\n")>>)
             ELSE /\ receiving'
                  /\ console_deque' = console_deque]_vars

\* a transfer has just completed in two packets
C5_Witness ==
    /\ ~receiving /\ Last(trace) = "notification"
    /\ Len(store) = 2 /\ store[2][3] /\ rx_bytes >= file_size
    /\ console_deque[Len(console_deque)] = <<Msg("File receive complete\n")>>

\* C6: a timeout handled while receiving issues exactly one FIL:NACK; one
\* handled while idle issues nothing, logs nothing and changes no transfer state.
C6_NackOnTimeout ==
    [][Step("timeout")
          => IF receiving
             THEN issued' = Append(issued, "FIL:NACK\n")
             ELSE UNCHANGED << issued, tasks, console_deque, receiverVars, packetVars >>]_vars

\* the timer of a completed transfer has fired while idle
C6_Witness ==
    /\ Last(trace) = "timeout" /\ ~receiving /\ store # <<>>
    /\ Count(issued, "FIL:NACK\n") = 0

\* C7: a step that opens a transfer leaves the watchdog running.
C7_ArmedOnOpen ==
    [][(~receiving /\ receiving') => rx_watchdog' # "inactive"]_vars

\* C8: a timeout is handled while receiving only if the watchdog was started
\* since the timeout before it.
C8_OneExpiryPerArm ==
    [][(Step("timeout") /\ receiving) => rx_watchdog = "armed"]_vars

\* C9: a disconnect while receiving ends the session, empties the packet
\* buffer and stops the watchdog.
C9_DisconnectResets ==
    [][(Step("disconnect") /\ receiving)
          => /\ ~receiving' /\ file' = <<>>
             /\ packet_bytes' = <<>> /\ packet_bytes_num' = 0
             /\ rx_watchdog' = "inactive"]_vars

\* C10: a disconnect that follows a disconnect changes nothing of the mode,
\* the session, the packet buffer, the watchdog, the connection or the console.
C10_DisconnectIdempotent ==
    [][(Last(trace) = "disconnect" /\ Step("disconnect"))
          => UNCHANGED << receiverVars, packetVars, rx_watchdog, bleVars,
                          console_deque, tasks >>]_vars

\* two disconnects in a row, the first one of a connected client with a
\* session open
C10_Witness ==
    /\ Last(trace) = "disconnect" /\ Prev(trace) = "disconnect"
    /\ Len(trace) = 4 /\ trace[1] = "connect" /\ receiving
    /\ client = "None"

\* the entries this step appends to the console
Appended == SubSeq(console_deque', Len(console_deque) + 1, Len(console_deque'))

IsStartedNotice(e) == e # <<>> /\ e[1] = Msg("Started receiving ")

IsCompleteNotice(e) == e = <<Msg("File receive complete\n")>>

TextLine == <<B("t", 5), NL>>

\* the texts of the non-negative decimal integers of the alphabet
NonNegTexts == { p[1] : p \in { q \in IntTable : q[2] >= 0 } }

\* a chunk that is one completed line with the marker and whose payload has
\* no comma or whose size field is not a non-negative decimal integer
MalformedDirective(line) ==
    /\ HasMark(line) /\ Len(splitlines(line)) = 1 /\ EndsNL(line)
    /\ LET payload == SubSeq(line, FirstOf(line, "mark") + 1, Len(line))
           c == FirstOf(payload, "comma")
           size == strip(SubSeq(payload, c + 1, Len(payload)))
       IN c = 0 \/ ~(Len(size) = 1 /\ size[1][1] = "num" /\ size[1][2] \in NonNegTexts)

\* a chunk that is one well-formed directive line
ValidDirective(line) ==
    HasMark(line) /\ Len(splitlines(line)) = 1 /\ EndsNL(line) /\ ~MalformedDirective(line)

\* C11: a malformed directive line received while idle opens no session and
\* is appended verbatim to the console.
C11_MalformedIsText ==
    [][(Step("notification") /\ ~receiving /\ last_line = <<>> /\ MalformedDirective(chunk'))
          => /\ ~receiving' /\ file' = <<>>
             /\ console_deque' = DequeAppend(console_deque, chunk')]_vars

\* C12: the console pipeline survives a malformed directive: no handler ends
\* the process or leaves a completed line in last_line, a text line received
\* while idle is appended once and a valid directive opens a transfer.
C12_MalformedNonFatal ==
    [][(Step("notification") /\ ~receiving)
          => /\ ~crashed'
             /\ ~HasNL(last_line')
             /\ (chunk' = TextLine =>
                    console_deque' = DequeAppend(console_deque, Concat(last_line, TextLine)))
             /\ (ValidDirective(chunk') => receiving')]_vars

\* C13: a step that starts or ends in Receiving appends nothing to the
\* console but "Started receiving" and "File receive complete" notices.
C13_ConsoleSuppressed ==
    [][(receiving \/ receiving')
          => /\ Len(console_deque') >= Len(console_deque)
             /\ \A i \in 1..Len(Appended) :
                   IsStartedNotice(Appended[i]) \/ IsCompleteNotice(Appended[i])]_vars

\* C14: the step that recognises a valid directive appends the "Started
\* receiving" notice and does not append the raw directive line.
C14_NoticeInsteadOfLine ==
    [][(Step("notification") /\ ~receiving /\ receiving')
          => /\ \E i \in 1..Len(Appended) : IsStartedNotice(Appended[i])
             /\ \A i \in 1..Len(Appended) : ~HasMark(Appended[i])]_vars

\* the number of sessions a step opens, one "Started receiving" notice each
RECURSIVE Opened(_)
Opened(es) ==
    IF es = <<>> THEN 0
    ELSE (IF IsStartedNotice(Head(es)) THEN 1 ELSE 0) + Opened(Tail(es))

\* C15: a step opens a session only from idle, and at most one.
C15_OneSession ==
    [][Opened(Appended) <= (IF receiving THEN 0 ELSE 1)]_vars

\* C16: a chunk is handled by the mode in force when it arrives: in Receiving
\* its bytes go to the packet buffer (or, flushed, to the file) and last_line
\* and the session parameters stay as they are; in Idle nothing goes to the
\* packet buffer or to the file, even if a directive in it opens a session.
C16_ModePerChunk ==
    [][Step("notification")
          => IF receiving
             THEN /\ last_line' = last_line
                  /\ Opened(Appended) = 0
                  /\ file_size' = file_size
                  /\ file' \in {file, <<>>}
                  /\ \/ packet_bytes' = Concat(packet_bytes, chunk') /\ store' = store
                     \/ /\ packet_bytes' = <<>> /\ FlushStep
                        /\ Flushed[2] = Concat(packet_bytes, chunk')
                     \/ /\ packet_bytes' = Concat(packet_bytes, chunk') /\ FlushStep
                        /\ ~Flushed[3] /\ Flushed[2] = Concat(packet_bytes, chunk')
             ELSE UNCHANGED << packetVars, store >>]_vars

\* a directive followed by three more bytes in its chunk has opened a session
C16_Witness ==
    /\ Last(trace) = "notification" /\ receiving
    /\ chunk = DirLine(CalibBin, NUM("100", 3)) \o <<B("x", 3)>>
    /\ packet_bytes = <<>> /\ packet_bytes_num = 0 /\ store = <<>>
    /\ last_line = <<B("x", 3)>>

\* C17: a timeout while receiving empties the packet buffer, appends the
\* timeout diagnostic and leaves the session as it was.
C17_TimeoutKeepsSession ==
    [][(Step("timeout") /\ receiving)
          => /\ packet_bytes' = <<>> /\ packet_bytes_num' = 0
             /\ console_deque' = DequeAppend(console_deque,
                    <<Msg("File receive timeout: no data received for 1 second\n")>>)
             /\ receiving' /\ file' = file /\ file_size' = file_size
             /\ rx_bytes' = rx_bytes]_vars

\* a timeout has emptied a buffer that held part of a packet
C17_Witness ==
    /\ trace = <<"connect", "notification", "notification", "timeout">>
    /\ receiving /\ session.raw # <<>> /\ store = <<>>
    /\ packet_bytes = <<>> /\ packet_bytes_num = 0

\* C18: a file.write that fails is logged and ends the session.
C18_StoreFailureAborts ==
    [][(FlushStep /\ ~Flushed[3])
          => /\ console_deque' = DequeAppend(console_deque, <<Msg("File receive error\n")>>)
             /\ ~receiving']_vars

\* C19 as stated: with more than FILE_PACKET_SIZE bytes in the buffer, no
\* chunk issues a FIL:ACK or flushes a packet (no file.write failing).
C19_NoFlushAfterOverrun ==
    [][(Step("notification") /\ receiving /\ packet_bytes_num > 1024 /\ ~session.failed
           /\ (FlushStep => Flushed[3]))
          => (issued' = issued /\ store' = store)]_vars

\* C19 amended: with more than FILE_PACKET_SIZE bytes in the buffer, a chunk
\* issues a FIL:ACK and flushes exactly when it brings rx_bytes plus the
\* buffered bytes to file_size, and then the whole buffer is one packet.
C19_FlushOnlyOnCompletion ==
    [][(Step("notification") /\ receiving /\ packet_bytes_num > 1024)
          => IF rx_bytes + packet_bytes_num + ByteLen(chunk') >= file_size
             THEN /\ issued' = Append(issued, "FIL:ACK\n")
                  /\ FlushStep /\ Flushed[2] = Concat(packet_bytes, chunk')
             ELSE issued' = issued /\ store' = store]_vars

\* an overrun buffer of 1096 bytes was flushed whole by the chunk that
\* brought it to 1572 bytes of a 1500-byte transfer
C19_Witness ==
    /\ Len(trace) = 5 /\ Last(trace) = "notification" /\ ~receiving
    /\ session.overrun /\ ~session.failed /\ ~session.timeout
    /\ Len(store) = 1 /\ ByteLen(store[1][2]) = 1572
    /\ Count(issued, "FIL:ACK\n") = 1

\* C20: a chunk that leaves more than FILE_PACKET_SIZE bytes in the buffer
\* without meeting a completion condition appends the overrun diagnostic,
\* issues no command, writes nothing and keeps the buffer and the session.
C20_OverrunLogged ==
    [][(Step("notification") /\ receiving
           /\ packet_bytes_num + ByteLen(chunk') > 1024
           /\ rx_bytes + packet_bytes_num + ByteLen(chunk') < file_size)
          => /\ console_deque' = DequeAppend(console_deque,
                    <<Msg("Error: received more than 1024 bytes without ACK\n")>>)
             /\ issued' = issued /\ store' = store
             /\ packet_bytes' = Concat(packet_bytes, chunk')
             /\ packet_bytes_num' = packet_bytes_num + ByteLen(chunk')
             /\ receiving']_vars

\* two chunks of 548 bytes of a 1500-byte transfer have overrun the buffer
C20_Witness ==
    /\ Last(trace) = "notification" /\ receiving /\ file_size = 1500
    /\ packet_bytes_num = 1096 /\ packet_bytes = <<B("x", 1096)>> /\ store = <<>>
    /\ console_deque[Len(console_deque)]
          = <<Msg("Error: received more than 1024 bytes without ACK\n")>>

\* C21: a command run while the transport is not connected is dropped (not
\* written, not queued again), leaves the mode, rx_bytes and the packet buffer
\* as they are, and appends the "Not connected" diagnostic to the console
\* (in sessions without a failed file.write).
C21_SendFailureLogged ==
    [][(Step("send") /\ client # "up" /\ ~session.failed)
          => /\ sent' = sent /\ tasks' = Tail(tasks)
             /\ UNCHANGED << receiverVars, packetVars >>
             /\ console_deque' = DequeAppend(console_deque,
                    <<Msg("Not connected: cannot send\n")>>)]_vars

\* a byte string of single characters: its bytes can be cut apart anywhere
PlainText(s) == \A i \in 1..Len(s) : s[i][1] \in {"b", "nl", "cr", "u8"}

\* C22: a text chunk handled while idle leaves the console and last_line as
\* the same bytes delivered in two chunks do, wherever the text is cut.
C22_ChunkBoundaryIndependent ==
    [][(Step("notification") /\ ~receiving /\ PlainText(chunk'))
          => \A n \in 1..(ByteLen(chunk') - 1) :
                LET p == Cut(chunk', n)
                    r == Reassemble(Reassemble(ConsoleState, p[1]), p[2])
                IN r.console = console_deque' /\ r.last_line = last_line']_vars

\* new is old without its d oldest entries, followed by appended entries, and
\* entries were removed only to stay within cap
AppendedTo(old, new, cap) ==
    \E d \in 0..Len(old) :
       /\ Len(new) >= Len(old) - d
       /\ SubSeq(new, 1, Len(old) - d) = SubSeq(old, d + 1, Len(old))
       /\ (d > 0 => Len(new) = cap)

\* C23: the console never holds more than maxlen entries; a change of maxlen
\* keeps the most recent min(length, maxlen) entries in order, a clear leaves
\* it empty, every other step appends at the end and removes oldest entries
\* only at capacity, and one line appended at capacity removes the oldest one.
C23_ConsoleLog ==
    [][/\ Len(console_deque') <= maxlen'
       /\ IF Step("max_lines")
          THEN LET n == IF Len(console_deque) < maxlen' THEN Len(console_deque) ELSE maxlen'
               IN console_deque' = SubSeq(console_deque, Len(console_deque) - n + 1,
                                          Len(console_deque))
          ELSE IF Step("clear") THEN console_deque' = <<>>
          ELSE AppendedTo(console_deque, console_deque', maxlen)
       /\ (Step("notification") /\ ~receiving /\ last_line = <<>> /\ chunk' = TextLine
              /\ Len(console_deque) = maxlen)
             => console_deque' = Append(Tail(console_deque), TextLine)]_vars

\* a console of 51 entries was cut to its 50 most recent ones by a change of
\* maxlen from 60 or 51 to 50
C23_Witness ==
    /\ Len(trace) = 5 /\ Last(trace) = "max_lines" /\ trace[1] = "max_lines"
    /\ maxlen = 50 /\ Len(console_deque) = 50
    /\ console_deque[1] = <<Msg("Connected\n")>>
    /\ console_deque[50] = <<NUM("24", 2), NL>>

\* C24: while a session is open, fewer bytes than file_size have been written.
C24_OpenBelowSize == receiving => rx_bytes < file_size

====
